---- MODULE Spec2Model ----
(***************************************************************************)
(* Model of src/citybike/algorithms.py: merge_sort/_merge, insertion_sort, *)
(* binary_search and linear_search.                                        *)
(*                                                                         *)
(* Python lists hold references.  The caller's items are the objects       *)
(* items[1..n]; a list is a sequence of item numbers, so two items with    *)
(* equal values stay distinguishable by their input position.  List        *)
(* objects live in `heap`, addressed by a reference: DataRef is the        *)
(* caller's list, NewRef the list object allocated by the running call.    *)
(* Python indices are 0-based; sequence position p+1 holds Python index p. *)
(***************************************************************************)
EXTENDS Integers, Sequences, FiniteSets, Bags, TLC

\* ---- bounds ------------------------------------------------------------
MaxLen == 3
MaxVal == 2
MaxRepeats == 2
MaxTicks == 1

\* ---- items and key functions --------------------------------------------
\* An item is a pair <<a, b>> (a tuple, as in the callers' data).
ItemVals == (1..MaxVal) \X (1..MaxVal)

\* Key functions a caller passes: the default identity (algorithms.py:16),
\* and the field projections lambda x: x[0], lambda x: x[1].
KeyFns == {"identity", "first", "second"}

\* A key value is a tuple of integers; a projection gives a 1-tuple.
Key(kf, it) ==
  CASE kf = "identity" -> it
    [] kf = "first"    -> <<it[1]>>
    [] kf = "second"   -> <<it[2]>>

KeyVals(kf) == {Key(kf, it) : it \in ItemVals}

MinOf(a, b) == IF a <= b THEN a ELSE b

\* Python's < on tuples: lexicographic.
KeyLt(u, v) ==
  \/ \E p \in 1..MinOf(Len(u), Len(v)) :
        /\ \A q \in 1..(p - 1) : u[q] = v[q]
        /\ u[p] < v[p]
  \/ /\ Len(u) < Len(v)
     /\ \A q \in 1..Len(u) : u[q] = v[q]

\* Python's <= on tuples.
KeyLe(u, v) == KeyLt(u, v) \/ u = v

\* ---- references and results ----------------------------------------------
DataRef == "data"
NewRef  == "new"
NoRef   == "null"
Refs    == {DataRef, NewRef}

\* binary_search / linear_search return None or an int.
None      == <<>>

\* Variant: index 0 is falsy and comes back as None (`return mid or None`).
IndexFalsy(ix) == IF ix = 0 THEN None ELSE <<ix>>

Index(ix) == <<ix>>

VARIABLES
  items,    \* items[p]: value of the p-th object of the caller's input
  keyfn,    \* the key function passed to the call
  heap,     \* heap[r]: contents of list object r (sequence of item numbers)
  pc,       \* position of the running call
  op,       \* which function was called
  target,   \* search target (a key value)
  stack,    \* merge_sort: call stack of frames, top is the last
  result,   \* insertion_sort: local `result`; sorts: the returned reference
  i, j,     \* insertion_sort / linear_search loop indices (0-based)
  current,  \* insertion_sort: the held element
  low, high,\* binary_search: closed index range
  mid,      \* binary_search: the probed midpoint
  ret,      \* search return value
  bad,      \* the item on which the key function raises, 0 if on none
  keylog,   \* the items whose key the running call has evaluated, in order
  prev,     \* what the caller kept of its previous call
  bench     \* benchmark_sort / benchmark_search: repeats, timings, report

vars == <<items, keyfn, heap, pc, op, target, stack, result, i, j, current,
          low, high, mid, ret, bad, keylog, prev, bench>>

N == Len(items)

\* key(x) for the item numbered x, under the call's key function.
KeyOf(x) == Key(keyfn, items[x])

\* The caller's list as first passed in: items 1..n in order.
InputSeq == [p \in 1..N |-> p]

\* ---- key evaluation ------------------------------------------------------
\* A statement evaluates key on the items evs, in that order.  The key
\* function raises on item `bad`; the exception ends the call.
Fails(evs) == \E p \in DOMAIN evs : evs[p] = bad

\* The evaluations made until the exception: up to the first failing one.
UpToFailure(evs) ==
  LET f == CHOOSE p \in DOMAIN evs :
              evs[p] = bad /\ \A q \in 1..(p - 1) : evs[q] # bad
  IN SubSeq(evs, 1, f)

\* ---- the caller's record of its previous call -----------------------------
\* kind: "none", "same" (the next call gets the same arguments) or
\* "resorted" (the next call gets the returned list); arg: the list the
\* previous call was given; res, ret: what it returned.
NoPrev ==
  [kind |-> "none", op |-> "none", arg |-> <<>>, res |-> <<>>, ret |-> None,
   target |-> <<>>]

Sorts    == {"merge_sort", "insertion_sort"}
Searches == {"binary_search", "linear_search"}

\* The function a caller compares a function with.
Counterpart(name) ==
  CASE name = "merge_sort"     -> "insertion_sort"
    [] name = "insertion_sort" -> "merge_sort"
    [] name = "binary_search"  -> "linear_search"
    [] name = "linear_search"  -> "binary_search"

NoBench == [repeats |-> 0, times |-> <<>>, report |-> <<>>]

Init ==
  /\ items \in UNION {[1..n -> ItemVals] : n \in 0..MaxLen}
  /\ keyfn \in KeyFns
  /\ heap = [r \in Refs |-> IF r = DataRef THEN [p \in 1..Len(items) |-> p]
                                           ELSE <<>>]
  /\ pc = "idle"
  /\ op = "none"
  /\ target = <<>>
  /\ stack = <<>>
  /\ result = NoRef
  /\ i = 0
  /\ j = 0
  /\ current = 0
  /\ low = 0
  /\ high = 0
  /\ mid = 0
  /\ ret = None
  /\ bad \in 0..Len(items)
  /\ keylog = <<>>
  /\ prev = NoPrev
  /\ bench = NoBench

\* The calls a caller makes: one call; or a call and then its counterpart
\* on the same arguments; or a sort and then a sort of the returned list.
CanCall(name) ==
  \/ prev.kind = "none"
  \/ prev.kind = "same" /\ name = Counterpart(prev.op)
  \/ prev.kind = "resorted" /\ name \in Sorts

\* The target of a search: any key value, the same one in a repeated call.
CanSearchFor(t) == prev.kind = "same" => t = prev.target

\* ---- insertion_sort ---------------------------------------------------------
\* Variant: result = data, no copy.
InsertionCopyAlias(src) == src

\* result = list(data): a new list object.
InsertionCopy(src) == NewRef

\* Variant: comparison reversed, key(result[j]) < key(current).
ShiftCondReversed(res, jj, cur) ==
  jj >= 0 /\ KeyLt(KeyOf(res[jj + 1]), KeyOf(cur))

\* Variant: non-strict comparison, key(result[j]) >= key(current).
ShiftCondNonStrict(res, jj, cur) ==
  jj >= 0 /\ KeyLe(KeyOf(cur), KeyOf(res[jj + 1]))

\* while j >= 0 and key(result[j]) > key(current)
ShiftCond(res, jj, cur) ==
  jj >= 0 /\ KeyLt(KeyOf(cur), KeyOf(res[jj + 1]))

\* The key evaluations of that test: none when j < 0 (short-circuit `and`),
\* else key(result[j]), then key(current).
ShiftCondEvals(res, jj, cur) ==
  IF jj >= 0 THEN <<res[jj + 1], cur>> ELSE <<>>

\* Variant: the held element is never written back.
PlaceForgotten(res, jj, cur) == res

\* result[j + 1] = current
Place(res, jj, cur) == [res EXCEPT ![jj + 2] = cur]

\* Variant: the keys of all items are computed up front.
ISCallPrecomputedKeys ==
  /\ pc = "idle"
  /\ CanCall("insertion_sort")
  /\ op' = "insertion_sort"
  /\ result' = InsertionCopy(DataRef)
  /\ heap' = [heap EXCEPT ![result'] = heap[DataRef]]
  /\ keylog' = keylog \o heap[DataRef]
  /\ i' = 1
  /\ pc' = "is_outer"
  /\ UNCHANGED <<items, keyfn, target, stack, j, current, low, high, mid, ret,
                 bad, prev, bench>>

ISCall ==
  /\ pc = "idle"
  /\ CanCall("insertion_sort")
  /\ op' = "insertion_sort"
  /\ result' = InsertionCopy(DataRef)
  /\ heap' = [heap EXCEPT ![result'] = heap[DataRef]]
  /\ i' = 1
  /\ pc' = "is_outer"
  /\ UNCHANGED <<items, keyfn, target, stack, j, current, low, high, mid, ret,
                 bad, keylog, prev, bench>>

ISHold ==
  /\ pc = "is_outer"
  /\ i < Len(heap[result])
  /\ current' = heap[result][i + 1]
  /\ j' = i - 1
  /\ pc' = "is_inner"
  /\ UNCHANGED <<items, keyfn, heap, op, target, stack, result, i, low, high, mid,
                 ret,
                 bad, keylog, prev, bench>>

ISShift ==
  /\ pc = "is_inner"
  /\ ~Fails(ShiftCondEvals(heap[result], j, current))
  /\ keylog' = keylog \o ShiftCondEvals(heap[result], j, current)
  /\ ShiftCond(heap[result], j, current)
  /\ heap' = [heap EXCEPT ![result][j + 2] = heap[result][j + 1]]
  /\ j' = j - 1
  /\ UNCHANGED <<items, keyfn, pc, op, target, stack, result, i, current, low,
                 high, mid, ret,
                 bad, prev, bench>>

ISPlace ==
  /\ pc = "is_inner"
  /\ ~Fails(ShiftCondEvals(heap[result], j, current))
  /\ keylog' = keylog \o ShiftCondEvals(heap[result], j, current)
  /\ ~ShiftCond(heap[result], j, current)
  /\ heap' = [heap EXCEPT ![result] = Place(heap[result], j, current)]
  /\ i' = i + 1
  /\ pc' = "is_outer"
  /\ UNCHANGED <<items, keyfn, op, target, stack, result, j, current, low,
                 high, mid, ret,
                 bad, prev, bench>>

\* key raises inside the loop test: the exception leaves insertion_sort.
ISRaise ==
  /\ pc = "is_inner"
  /\ Fails(ShiftCondEvals(heap[result], j, current))
  /\ keylog' = keylog \o UpToFailure(ShiftCondEvals(heap[result], j, current))
  /\ pc' = "raised"
  /\ UNCHANGED <<items, keyfn, heap, op, target, stack, result, i, j, current,
                 low, high, mid, ret, bad, prev, bench>>

ISReturn ==
  /\ pc = "is_outer"
  /\ i >= Len(heap[result])
  /\ pc' = "done"
  /\ UNCHANGED <<items, keyfn, heap, op, target, stack, result, i, j, current,
                 low, high, mid, ret,
                 bad, keylog, prev, bench>>

\* ---- merge_sort -----------------------------------------------------------------
\* Python slice s[a:b] (0-based, end-exclusive); a slice is a new list.
Slice(s, a, b) == SubSeq(s, a + 1, b)

\* A call frame of merge_sort; `left`, `right`, `result`, `i`, `j` are the
\* locals of the _merge call it ends with.
Frame(d) ==
  [data |-> d, ph |-> "enter", left |-> <<>>, right |-> <<>>,
   result |-> <<>>, i |-> 0, j |-> 0]

Top == stack[Len(stack)]

\* mid = len(data) // 2
Mid(d) == Len(d) \div 2

\* return list(data): a new list object.
MergeSortCopy(src) == NewRef

\* Variant: comparison reversed, key(left[i]) >= key(right[j]).
MergeTakeLeftReversed(l, r) == KeyLe(KeyOf(r), KeyOf(l))

\* Variant: strict comparison, key(left[i]) < key(right[j]).
MergeTakeLeftStrict(l, r) == KeyLt(KeyOf(l), KeyOf(r))

\* if key(left[i]) <= key(right[j])
MergeTakeLeft(l, r) == KeyLe(KeyOf(l), KeyOf(r))

\* Variant: the remainder of the right half is not appended.
MergeExtendLeftOnly(res, left, ii, right, jj) ==
  res \o Slice(left, ii, Len(left))

\* result.extend(left[i:]); result.extend(right[j:])
MergeExtend(res, left, ii, right, jj) ==
  res \o Slice(left, ii, Len(left)) \o Slice(right, jj, Len(right))

\* The top frame returns `value`: to the frame below, which stores it in
\* `left` or `right`, or to the caller, who receives the list object `ref`.
ReturnValue(value, ref) ==
  IF Len(stack) = 1
  THEN /\ stack' = <<>>
       /\ result' = ref
       /\ heap' = [heap EXCEPT ![ref] = value]
       /\ pc' = "done"
  ELSE LET d      == Len(stack) - 1
           parent == stack[d]
           np     == IF parent.ph = "left"
                     THEN [parent EXCEPT !.left = value, !.ph = "callright"]
                     ELSE [parent EXCEPT !.right = value, !.ph = "merge"]
       IN /\ stack' = [SubSeq(stack, 1, d) EXCEPT ![d] = np]
          /\ UNCHANGED <<result, heap, pc>>

MSCall ==
  /\ pc = "idle"
  /\ CanCall("merge_sort")
  /\ op' = "merge_sort"
  /\ stack' = <<Frame(heap[DataRef])>>
  /\ pc' = "ms"
  /\ UNCHANGED <<items, keyfn, heap, target, result, i, j, current, low, high, mid,
                 ret,
                 bad, keylog, prev, bench>>

\* if len(data) <= 1: return list(data)
MSBase ==
  /\ pc = "ms"
  /\ Top.ph = "enter"
  /\ Len(Top.data) <= 1
  /\ ReturnValue(Top.data, MergeSortCopy(DataRef))
  /\ UNCHANGED <<items, keyfn, op, target, i, j, current, low, high, mid, ret,
                 bad, keylog, prev, bench>>

\* left = merge_sort(data[:mid], key=key)
MSRecurseLeft ==
  /\ pc = "ms"
  /\ Top.ph = "enter"
  /\ Len(Top.data) > 1
  /\ stack' = [stack EXCEPT ![Len(stack)].ph = "left"]
                \o <<Frame(Slice(Top.data, 0, Mid(Top.data)))>>
  /\ UNCHANGED <<items, keyfn, heap, pc, op, target, result, i, j, current,
                 low, high, mid, ret,
                 bad, keylog, prev, bench>>

\* right = merge_sort(data[mid:], key=key)
MSRecurseRight ==
  /\ pc = "ms"
  /\ Top.ph = "callright"
  /\ stack' = [stack EXCEPT ![Len(stack)].ph = "right"]
                \o <<Frame(Slice(Top.data, Mid(Top.data), Len(Top.data)))>>
  /\ UNCHANGED <<items, keyfn, heap, pc, op, target, result, i, j, current,
                 low, high, mid, ret,
                 bad, keylog, prev, bench>>

\* One iteration of the loop of _merge.
MergeStep ==
  /\ pc = "ms"
  /\ Top.ph = "merge"
  /\ Top.i < Len(Top.left) /\ Top.j < Len(Top.right)
  /\ ~Fails(<<Top.left[Top.i + 1], Top.right[Top.j + 1]>>)
  /\ keylog' = keylog \o <<Top.left[Top.i + 1], Top.right[Top.j + 1]>>
  /\ LET l == Top.left[Top.i + 1]
         r == Top.right[Top.j + 1]
     IN IF MergeTakeLeft(l, r)
        THEN stack' = [stack EXCEPT ![Len(stack)].result = Append(@, l),
                                    ![Len(stack)].i = @ + 1]
        ELSE stack' = [stack EXCEPT ![Len(stack)].result = Append(@, r),
                                    ![Len(stack)].j = @ + 1]
  /\ UNCHANGED <<items, keyfn, heap, pc, op, target, result, i, j, current,
                 low, high, mid, ret,
                 bad, prev, bench>>

\* key raises in the comparison of _merge: the exception leaves _merge and
\* every merge_sort frame below it.
MergeRaise ==
  /\ pc = "ms"
  /\ Top.ph = "merge"
  /\ Top.i < Len(Top.left) /\ Top.j < Len(Top.right)
  /\ Fails(<<Top.left[Top.i + 1], Top.right[Top.j + 1]>>)
  /\ keylog' = keylog
                \o UpToFailure(<<Top.left[Top.i + 1], Top.right[Top.j + 1]>>)
  /\ stack' = <<>>
  /\ pc' = "raised"
  /\ UNCHANGED <<items, keyfn, heap, op, target, result, i, j, current, low,
                 high, mid, ret, bad, prev, bench>>

\* Loop exit of _merge, the two extends, and the returns of _merge and of
\* the merge_sort call that made it.
MergeReturn ==
  /\ pc = "ms"
  /\ Top.ph = "merge"
  /\ ~(Top.i < Len(Top.left) /\ Top.j < Len(Top.right))
  /\ ReturnValue(MergeExtend(Top.result, Top.left, Top.i, Top.right, Top.j),
                 NewRef)
  /\ UNCHANGED <<items, keyfn, op, target, i, j, current, low, high, mid, ret,
                 bad, keylog, prev, bench>>

\* ---- binary_search -----------------------------------------------------------
\* Variant: while low < high.
BSLoopCondStrict(lo, hi) == lo < hi

\* while low <= high
BSLoopCond(lo, hi) == lo <= hi

\* mid = (low + high) // 2
BSMid(lo, hi) == (lo + hi) \div 2

\* mid_val = key(sorted_data[mid])
MidVal(m) == KeyOf(heap[DataRef][m + 1])

\* if mid_val == target
BSMatch(mv, tgt) == mv = tgt

\* Variant: the two branches swapped, mid_val > target.
BSBelowReversed(mv, tgt) == KeyLt(tgt, mv)

\* elif mid_val < target
BSBelow(mv, tgt) == KeyLt(mv, tgt)

\* Variant: low, high = 0, len(sorted_data).
BSCallHighLen ==
  /\ pc = "idle"
  /\ CanCall("binary_search")
  /\ op' = "binary_search"
  /\ \E t \in KeyVals(keyfn) : CanSearchFor(t) /\ target' = t
  /\ low' = 0
  /\ high' = Len(heap[DataRef])
  /\ pc' = "bs_loop"
  /\ UNCHANGED <<items, keyfn, heap, stack, result, i, j, current, mid, ret,
                 bad, keylog, prev, bench>>

\* low, high = 0, len(sorted_data) - 1
BSCall ==
  /\ pc = "idle"
  /\ CanCall("binary_search")
  /\ op' = "binary_search"
  /\ \E t \in KeyVals(keyfn) : CanSearchFor(t) /\ target' = t
  /\ low' = 0
  /\ high' = Len(heap[DataRef]) - 1
  /\ pc' = "bs_loop"
  /\ UNCHANGED <<items, keyfn, heap, stack, result, i, j, current, mid, ret,
                 bad, keylog, prev, bench>>

\* return mid
BSFound ==
  /\ pc = "bs_loop"
  /\ BSLoopCond(low, high)
  /\ ~Fails(<<heap[DataRef][BSMid(low, high) + 1]>>)
  /\ keylog' = Append(keylog, heap[DataRef][BSMid(low, high) + 1])
  /\ mid' = BSMid(low, high)
  /\ BSMatch(MidVal(mid'), target)
  /\ ret' = Index(mid')
  /\ pc' = "done"
  /\ UNCHANGED <<items, keyfn, heap, op, target, stack, result, i, j, current,
                 low, high,
                 bad, prev, bench>>

\* Variant: low = mid, the probed index stays in the range.
BSGoRightNoAdvance ==
  /\ pc = "bs_loop"
  /\ BSLoopCond(low, high)
  /\ ~Fails(<<heap[DataRef][BSMid(low, high) + 1]>>)
  /\ keylog' = Append(keylog, heap[DataRef][BSMid(low, high) + 1])
  /\ mid' = BSMid(low, high)
  /\ ~BSMatch(MidVal(mid'), target)
  /\ BSBelow(MidVal(mid'), target)
  /\ low' = mid'
  /\ UNCHANGED <<items, keyfn, heap, pc, op, target, stack, result, i, j,
                 current, high, ret, bad, prev, bench>>

\* low = mid + 1
BSGoRight ==
  /\ pc = "bs_loop"
  /\ BSLoopCond(low, high)
  /\ ~Fails(<<heap[DataRef][BSMid(low, high) + 1]>>)
  /\ keylog' = Append(keylog, heap[DataRef][BSMid(low, high) + 1])
  /\ mid' = BSMid(low, high)
  /\ ~BSMatch(MidVal(mid'), target)
  /\ BSBelow(MidVal(mid'), target)
  /\ low' = mid' + 1
  /\ UNCHANGED <<items, keyfn, heap, pc, op, target, stack, result, i, j,
                 current, high, ret,
                 bad, prev, bench>>

\* high = mid - 1
BSGoLeft ==
  /\ pc = "bs_loop"
  /\ BSLoopCond(low, high)
  /\ ~Fails(<<heap[DataRef][BSMid(low, high) + 1]>>)
  /\ keylog' = Append(keylog, heap[DataRef][BSMid(low, high) + 1])
  /\ mid' = BSMid(low, high)
  /\ ~BSMatch(MidVal(mid'), target)
  /\ ~BSBelow(MidVal(mid'), target)
  /\ high' = mid' - 1
  /\ UNCHANGED <<items, keyfn, heap, pc, op, target, stack, result, i, j,
                 current, low, ret,
                 bad, prev, bench>>

\* key raises on the probed element: the exception leaves binary_search.
BSRaise ==
  /\ pc = "bs_loop"
  /\ BSLoopCond(low, high)
  /\ mid' = BSMid(low, high)
  /\ Fails(<<heap[DataRef][mid' + 1]>>)
  /\ keylog' = Append(keylog, heap[DataRef][mid' + 1])
  /\ pc' = "raised"
  /\ UNCHANGED <<items, keyfn, heap, op, target, stack, result, i, j, current,
                 low, high, ret, bad, prev, bench>>

\* Variant: the insertion point `low` is returned instead of None.
BSNotFoundReturnsLow ==
  /\ pc = "bs_loop"
  /\ ~BSLoopCond(low, high)
  /\ ret' = Index(low)
  /\ pc' = "done"
  /\ UNCHANGED <<items, keyfn, heap, op, target, stack, result, i, j, current,
                 low, high, mid,
                 bad, keylog, prev, bench>>

\* return None
BSNotFound ==
  /\ pc = "bs_loop"
  /\ ~BSLoopCond(low, high)
  /\ ret' = None
  /\ pc' = "done"
  /\ UNCHANGED <<items, keyfn, heap, op, target, stack, result, i, j, current,
                 low, high, mid,
                 bad, keylog, prev, bench>>

\* ---- linear_search -----------------------------------------------------------
\* if key(item) == target
LinearMatch(x, tgt) == KeyOf(x) = tgt

\* Variant: the scan starts at index 1.
LSCallFromOne ==
  /\ pc = "idle"
  /\ CanCall("linear_search")
  /\ op' = "linear_search"
  /\ \E t \in KeyVals(keyfn) : CanSearchFor(t) /\ target' = t
  /\ i' = 1
  /\ pc' = "ls_loop"
  /\ UNCHANGED <<items, keyfn, heap, stack, result, j, current, low, high, mid,
                 ret,
                 bad, keylog, prev, bench>>

\* for i, item in enumerate(data)
LSCall ==
  /\ pc = "idle"
  /\ CanCall("linear_search")
  /\ op' = "linear_search"
  /\ \E t \in KeyVals(keyfn) : CanSearchFor(t) /\ target' = t
  /\ i' = 0
  /\ pc' = "ls_loop"
  /\ UNCHANGED <<items, keyfn, heap, stack, result, j, current, low, high, mid,
                 ret,
                 bad, keylog, prev, bench>>

\* return i
LSFound ==
  /\ pc = "ls_loop"
  /\ i < Len(heap[DataRef])
  /\ ~Fails(<<heap[DataRef][i + 1]>>)
  /\ keylog' = Append(keylog, heap[DataRef][i + 1])
  /\ LinearMatch(heap[DataRef][i + 1], target)
  /\ ret' = Index(i)
  /\ pc' = "done"
  /\ UNCHANGED <<items, keyfn, heap, op, target, stack, result, i, j, current,
                 low, high, mid,
                 bad, prev, bench>>

LSAdvance ==
  /\ pc = "ls_loop"
  /\ i < Len(heap[DataRef])
  /\ ~Fails(<<heap[DataRef][i + 1]>>)
  /\ keylog' = Append(keylog, heap[DataRef][i + 1])
  /\ ~LinearMatch(heap[DataRef][i + 1], target)
  /\ i' = i + 1
  /\ UNCHANGED <<items, keyfn, heap, pc, op, target, stack, result, j, current,
                 low, high, mid, ret,
                 bad, prev, bench>>

\* Variant: the exception is swallowed and the scan goes on.
LSRaiseSwallowed ==
  /\ pc = "ls_loop"
  /\ i < Len(heap[DataRef])
  /\ Fails(<<heap[DataRef][i + 1]>>)
  /\ keylog' = Append(keylog, heap[DataRef][i + 1])
  /\ i' = i + 1
  /\ UNCHANGED <<items, keyfn, heap, pc, op, target, stack, result, j, current,
                 low, high, mid, ret, bad, prev, bench>>

\* key raises on the scanned item: the exception leaves linear_search.
LSRaise ==
  /\ pc = "ls_loop"
  /\ i < Len(heap[DataRef])
  /\ Fails(<<heap[DataRef][i + 1]>>)
  /\ keylog' = Append(keylog, heap[DataRef][i + 1])
  /\ pc' = "raised"
  /\ UNCHANGED <<items, keyfn, heap, op, target, stack, result, i, j, current,
                 low, high, mid, ret, bad, prev, bench>>

\* return None
LSNotFound ==
  /\ pc = "ls_loop"
  /\ i >= Len(heap[DataRef])
  /\ ret' = None
  /\ pc' = "done"
  /\ UNCHANGED <<items, keyfn, heap, op, target, stack, result, i, j, current,
                 low, high, mid,
                 bad, keylog, prev, bench>>

\* ---- the caller, after a sort has returned ----------------------------------
\* The caller writes to the list it got back: result[p] = x or
\* result.append(x), x one of its items.
WriteResult ==
  /\ pc = "done"
  /\ op \in {"merge_sort", "insertion_sort"}
  /\ \E x \in 1..N :
        \/ \E p \in 1..Len(heap[result]) :
              heap' = [heap EXCEPT ![result][p] = x]
        \/ heap' = [heap EXCEPT ![result] = Append(@, x)]
  /\ pc' = "written"
  /\ UNCHANGED <<items, keyfn, op, target, stack, result, i, j, current, low,
                 high, mid, ret,
                 bad, keylog, prev, bench>>

\* ---- benchmark_sort, benchmark_search ------------------------------------------
\* A timing is a whole number of ticks of 0.01 ms, so that a report value
\* (milliseconds rounded to 2 decimals) is a whole number of hundredths.
Benchmarks == {"benchmark_sort", "benchmark_search"}

\* The keys of the returned dict.
Metrics(name) ==
  IF name = "benchmark_sort"
  THEN {"merge_sort_ms", "builtin_sorted_ms"}
  ELSE {"binary_search_ms", "linear_search_ms", "builtin_in_ms"}

\* The values of the repeats argument.
RepeatVals == 0..MaxRepeats

\* round(t / repeats * 1000, 2) for t >= 0, repeats > 0: Python rounds
\* half to even.
RoundedAverage(t, r) ==
  LET q == t \div r
      m == t % r
  IN IF 2 * m < r THEN q
     ELSE IF 2 * m > r THEN q + 1
     ELSE IF q % 2 = 0 THEN q ELSE q + 1

\* The stated preconditions: valid, non-empty data (key defined on every
\* item), sorted by key for benchmark_search.
ValidData == bad = 0 /\ Len(heap[DataRef]) >= 1

SortedByKey ==
  \A p \in 1..(Len(heap[DataRef]) - 1) :
     KeyLe(KeyOf(heap[DataRef][p]), KeyOf(heap[DataRef][p + 1]))

BenchSortCall ==
  /\ pc = "idle"
  /\ prev.kind = "none"
  /\ ValidData
  /\ op' = "benchmark_sort"
  /\ \E r \in RepeatVals : bench' = [bench EXCEPT !.repeats = r]
  /\ pc' = "bench_timing"
  /\ UNCHANGED <<items, keyfn, heap, target, stack, result, i, j, current, low,
                 high, mid, ret, bad, keylog, prev>>

BenchSearchCall ==
  /\ pc = "idle"
  /\ prev.kind = "none"
  /\ ValidData
  /\ SortedByKey
  /\ op' = "benchmark_search"
  /\ \E t \in KeyVals(keyfn) : target' = t
  /\ \E r \in RepeatVals : bench' = [bench EXCEPT !.repeats = r]
  /\ pc' = "bench_timing"
  /\ UNCHANGED <<items, keyfn, heap, stack, result, i, j, current, low, high,
                 mid, ret, bad, keylog, prev>>

\* The timeit.timeit calls: each runs its statement `repeats` times (the
\* timed calls return and leave the caller's data as it was) and returns
\* the elapsed time, which is not negative.
BenchTime ==
  /\ pc = "bench_timing"
  /\ \E ts \in [Metrics(op) -> 0..MaxTicks] :
        bench' = [bench EXCEPT !.times = ts]
  /\ pc' = "bench_timed"
  /\ UNCHANGED <<items, keyfn, heap, op, target, stack, result, i, j, current,
                 low, high, mid, ret, bad, keylog, prev>>

\* return {...: round(t / repeats * 1000, 2), ...}
BenchReturn ==
  /\ pc = "bench_timed"
  /\ bench.repeats # 0
  /\ bench' = [bench EXCEPT !.report =
                  [m \in Metrics(op) |->
                     RoundedAverage(bench.times[m], bench.repeats)]]
  /\ pc' = "done"
  /\ UNCHANGED <<items, keyfn, heap, op, target, stack, result, i, j, current,
                 low, high, mid, ret, bad, keylog, prev>>

\* t / repeats with repeats = 0: ZeroDivisionError leaves the benchmark.
BenchZeroDivision ==
  /\ pc = "bench_timed"
  /\ bench.repeats = 0
  /\ pc' = "crashed"
  /\ UNCHANGED <<items, keyfn, heap, op, target, stack, result, i, j, current,
                 low, high, mid, ret, bad, keylog, prev, bench>>

\* ---- the caller, between two calls --------------------------------------------
\* Locals of a call that has returned are gone.
ForgetCall ==
  /\ pc' = "idle"
  /\ op' = "none"
  /\ target' = <<>>
  /\ stack' = <<>>
  /\ result' = NoRef
  /\ i' = 0
  /\ j' = 0
  /\ current' = 0
  /\ low' = 0
  /\ high' = 0
  /\ mid' = 0
  /\ ret' = None
  /\ keylog' = <<>>

\* The caller keeps what the call returned and is ready to call the
\* counterpart on the same data, key and target.
CallAgain ==
  /\ pc = "done"
  /\ op \in Sorts \cup Searches
  /\ prev.kind = "none"
  /\ prev' = [kind |-> "same", op |-> op, arg |-> heap[DataRef],
              res |-> IF op \in Sorts THEN heap[result] ELSE <<>>,
              ret |-> ret, target |-> target]
  /\ heap' = [heap EXCEPT ![NewRef] = <<>>]
  /\ ForgetCall
  /\ UNCHANGED <<items, keyfn, bad, bench>>

\* The caller is ready to sort the list a sort returned: that list is the
\* new input, its items renumbered by their position in it.
Resubmit ==
  /\ pc = "done"
  /\ op \in Sorts
  /\ prev.kind = "none"
  /\ items' = [p \in 1..Len(heap[result]) |-> items[heap[result][p]]]
  /\ bad' = IF \E p \in 1..Len(heap[result]) : heap[result][p] = bad
            THEN CHOOSE p \in 1..Len(heap[result]) : heap[result][p] = bad
            ELSE 0
  /\ heap' = [r \in Refs |-> IF r = DataRef
                              THEN [p \in 1..Len(heap[result]) |-> p]
                              ELSE <<>>]
  /\ prev' = [kind |-> "resorted", op |-> op,
              arg |-> [x \in 1..Len(heap[DataRef]) |->
                         IF \E p \in 1..Len(heap[result]) :
                               heap[result][p] = heap[DataRef][x]
                         THEN CHOOSE p \in 1..Len(heap[result]) :
                                 heap[result][p] = heap[DataRef][x]
                         ELSE 0],
              res |-> [p \in 1..Len(heap[result]) |-> p],
              ret |-> None, target |-> <<>>]
  /\ ForgetCall
  /\ UNCHANGED <<keyfn, bench>>

Next ==
  \/ MSCall
  \/ MSBase
  \/ MSRecurseLeft
  \/ MSRecurseRight
  \/ MergeStep
  \/ MergeRaise
  \/ MergeReturn
  \/ ISCall
  \/ ISHold
  \/ ISShift
  \/ ISPlace
  \/ ISRaise
  \/ ISReturn
  \/ BSCall
  \/ BSFound
  \/ BSGoRight
  \/ BSGoLeft
  \/ BSRaise
  \/ BSNotFound
  \/ LSCall
  \/ LSFound
  \/ LSAdvance
  \/ LSRaise
  \/ LSNotFound
  \/ BenchSortCall
  \/ BenchSearchCall
  \/ BenchTime
  \/ BenchReturn
  \/ BenchZeroDivision
  \/ WriteResult
  \/ CallAgain
  \/ Resubmit

Spec == Init /\ [][Next]_vars

\* A call of binary_search runs to completion: the function is synchronous
\* and has no suspension point, so its next statement is always executed.
BSRun == BSFound \/ BSGoRight \/ BSGoLeft \/ BSRaise \/ BSNotFound

LiveSpec == Spec /\ WF_vars(BSRun)

\* ---- properties ------------------------------------------------------------
\* The list object a finished sort handed back.
Returned == heap[result]

SortDone(name) == op = name /\ pc = "done"

SearchDone(name) == op = name /\ pc = "done"

\* s is non-decreasing under key.
Ordered(s) ==
  \A p \in 1..(Len(s) - 1) : KeyLe(KeyOf(s[p]), KeyOf(s[p + 1]))

\* The multiset of item values a list holds.
ValueBag(s) ==
  [v \in {items[s[p]] : p \in DOMAIN s} |->
      Cardinality({p \in DOMAIN s : items[s[p]] = v})]

\* s holds every input object exactly once: same length, nothing dropped,
\* duplicated or invented.
SameItems(s) ==
  /\ Len(s) = N
  /\ \A x \in 1..N : Cardinality({p \in DOMAIN s : s[p] = x}) = 1
  /\ ValueBag(s) = ValueBag(InputSeq)

\* Equal-key items keep their input order in s.
Stable(s) ==
  /\ \A x, y \in 1..N :
        (x < y /\ KeyOf(x) = KeyOf(y)) =>
           \E p, q \in DOMAIN s : p < q /\ s[p] = x /\ s[q] = y
  /\ (\A x, y \in 1..N : KeyOf(x) = KeyOf(y)) => s = InputSeq

\* Some pair of input objects has equal keys but different values, and the
\* input is not already in key order.
StabilityCase ==
  /\ ~Ordered(InputSeq)
  /\ \E x, y \in 1..N : x < y /\ KeyOf(x) = KeyOf(y) /\ items[x] # items[y]

TargetPresent == \E x \in 1..N : KeyOf(x) = target

\* C1: the list merge_sort returns is non-decreasing under key.
MergeSortOrdered == SortDone("merge_sort") => Ordered(Returned)

MergeSortOrderedWitness ==
  /\ SortDone("merge_sort")
  /\ N >= 3
  /\ ~Ordered(InputSeq)
  /\ Ordered(Returned)

\* C2: the list merge_sort returns holds exactly the items of the input,
\* each as often as the input does.
MergeSortPermutation == SortDone("merge_sort") => SameItems(Returned)

MergeSortPermutationWitness ==
  /\ SortDone("merge_sort")
  /\ N >= 3
  /\ Returned # InputSeq
  /\ \E x, y \in 1..N : x # y /\ items[x] = items[y]
  /\ SameItems(Returned)

\* C3: merge_sort is stable: input items with equal keys appear in the
\* result in their input order; with all keys equal the result is the input
\* order.
MergeSortStable == SortDone("merge_sort") => Stable(Returned)

MergeSortStableWitness ==
  /\ SortDone("merge_sort")
  /\ StabilityCase
  /\ Stable(Returned)

\* C4: the list insertion_sort returns is non-decreasing under key.
InsertionSortOrdered == SortDone("insertion_sort") => Ordered(Returned)

InsertionSortOrderedWitness ==
  /\ SortDone("insertion_sort")
  /\ N >= 3
  /\ ~Ordered(InputSeq)
  /\ Ordered(Returned)

\* C5: the list insertion_sort returns holds exactly the items of the
\* input; the shifts and the placement lose and duplicate nothing.
InsertionSortPermutation == SortDone("insertion_sort") => SameItems(Returned)

InsertionSortPermutationWitness ==
  /\ SortDone("insertion_sort")
  /\ N >= 3
  /\ Returned # InputSeq
  /\ \E x, y \in 1..N : x # y /\ items[x] = items[y]
  /\ SameItems(Returned)

\* C6: insertion_sort is stable: input items with equal keys appear in the
\* result in their input order.
InsertionSortStable == SortDone("insertion_sort") => Stable(Returned)

InsertionSortStableWitness ==
  /\ SortDone("insertion_sort")
  /\ StabilityCase
  /\ Stable(Returned)

\* C7: neither sort modifies its input: the caller's list holds the same
\* items at the same positions during and after the call, the returned list
\* is another object than the input, and a later write to the returned list
\* leaves the input as it was.
SortsLeaveInputUntouched ==
  /\ heap[DataRef] = InputSeq
  /\ (op \in {"merge_sort", "insertion_sort"} /\ pc \in {"done", "written"})
        => result # DataRef

SortsLeaveInputUntouchedWitness ==
  /\ op \in {"merge_sort", "insertion_sort"}
  /\ pc = "written"
  /\ N >= 2
  /\ ~Ordered(InputSeq)
  /\ heap[result] # heap[DataRef]
  /\ heap[DataRef] = InputSeq

\* C8: on a list non-decreasing under key that holds an element whose key
\* is the target, binary_search returns an index, and the element at that
\* index has key equal to the target.
BinarySearchFindsPresent ==
  (SearchDone("binary_search") /\ Ordered(heap[DataRef]) /\ TargetPresent)
    => /\ ret # None
       /\ ret[1] \in 0..(N - 1)
       /\ KeyOf(heap[DataRef][ret[1] + 1]) = target

BinarySearchFindsPresentWitness ==
  /\ SearchDone("binary_search")
  /\ Ordered(heap[DataRef])
  /\ N >= 3
  /\ Cardinality({x \in 1..N : KeyOf(x) = target}) >= 2
  /\ \E x \in 1..N : KeyOf(x) # target
  /\ ret # None

\* C9: on a list non-decreasing under key (the empty list included) that
\* holds no element whose key is the target, binary_search returns None.
BinarySearchAbsentIsNone ==
  (SearchDone("binary_search") /\ Ordered(heap[DataRef]) /\ ~TargetPresent)
    => ret = None

BinarySearchAbsentIsNoneWitness ==
  /\ SearchDone("binary_search")
  /\ Ordered(heap[DataRef])
  /\ N >= 2
  /\ ~TargetPresent
  /\ \E x \in 1..N : KeyLt(KeyOf(x), target)
  /\ \E x \in 1..N : KeyLt(target, KeyOf(x))
  /\ ret = None

\* C10: on any list, sorted or not, linear_search returns the lowest index
\* whose element has key equal to the target, and None exactly when there is
\* no such element.
LinearSearchFirstMatch ==
  SearchDone("linear_search") =>
    IF TargetPresent
    THEN /\ ret # None
         /\ ret[1] \in 0..(N - 1)
         /\ KeyOf(heap[DataRef][ret[1] + 1]) = target
         /\ \A q \in 0..(ret[1] - 1) : KeyOf(heap[DataRef][q + 1]) # target
    ELSE ret = None

LinearSearchFirstMatchWitness ==
  /\ SearchDone("linear_search")
  /\ ~Ordered(heap[DataRef])
  /\ Cardinality({x \in 1..N : KeyOf(x) = target}) >= 2
  /\ ret # None
  /\ ret[1] < N - 1

\* The keys of a list, position by position.
KeysOf(s) == [p \in DOMAIN s |-> KeyOf(s[p])]

\* C11: a sort of a list already non-decreasing under key returns the same
\* items in the same positions, and a sort of the list a sort returned
\* returns that list again, item by item.
SortIdempotent ==
  /\ (op \in Sorts /\ pc = "done" /\ Ordered(InputSeq))
        => Returned = InputSeq
  /\ (op \in Sorts /\ pc = "done" /\ prev.kind = "resorted")
        => Returned = prev.res

SortIdempotentWitness ==
  /\ op \in Sorts
  /\ pc = "done"
  /\ prev.kind = "resorted"
  /\ prev.arg # prev.res
  /\ N >= 3
  /\ \E x, y \in 1..N : x < y /\ KeyOf(x) = KeyOf(y) /\ items[x] # items[y]
  /\ Returned = InputSeq

\* C12: on the same input and key, the keys of the list merge_sort returns
\* equal, position by position, the keys of the list insertion_sort
\* returns.
SortsAgreeOnKeys ==
  (op \in Sorts /\ pc = "done" /\ prev.kind = "same")
    => KeysOf(Returned) = KeysOf(prev.res)

SortsAgreeOnKeysWitness ==
  /\ op = "insertion_sort"
  /\ pc = "done"
  /\ prev.kind = "same"
  /\ prev.op = "merge_sort"
  /\ N >= 3
  /\ ~Ordered(InputSeq)
  /\ \E x, y \in 1..N : x < y /\ KeyOf(x) = KeyOf(y)
  /\ KeysOf(Returned) = KeysOf(prev.res)

\* C13: when the key function raises on an item during merge_sort,
\* insertion_sort, binary_search or linear_search, the call ends with that
\* exception at the first failing evaluation: the failing evaluation is the
\* last key evaluation and the only one of that item (no further key, no
\* retry), nothing is returned, and the caller's list is as it was.
KeyFailurePropagates ==
  /\ (\E p \in DOMAIN keylog : keylog[p] = bad)
        => /\ pc = "raised"
           /\ keylog[Len(keylog)] = bad
           /\ Cardinality({p \in DOMAIN keylog : keylog[p] = bad}) = 1
  /\ pc = "raised"
        => /\ \E p \in DOMAIN keylog : keylog[p] = bad
           /\ ret = None
           /\ op = "merge_sort" => result = NoRef
           /\ heap[DataRef] = InputSeq

KeyFailurePropagatesWitness ==
  /\ pc = "raised"
  /\ op = "insertion_sort"
  /\ Len(keylog) >= 4
  /\ heap[result] # InputSeq
  /\ heap[DataRef] = InputSeq

\* C14: what binary_search and linear_search return on a list of length n
\* is None or an integer index i with 0 <= i < n, never a negative or
\* out-of-range one; a match is returned as its index, index 0 included,
\* and None is returned only when the search ended without a match.
SearchResultWellFormed ==
  (op \in Searches /\ pc = "done")
    => /\ ret = None \/ (Len(ret) = 1 /\ ret[1] \in 0..(N - 1))
       /\ op = "binary_search"
             => IF low <= high THEN ret = <<mid>> /\ ret # None
                               ELSE ret = None
       /\ op = "linear_search"
             => IF i < N THEN ret = <<i>> /\ ret # None
                         ELSE ret = None

SearchResultWellFormedWitness ==
  /\ op = "binary_search"
  /\ pc = "done"
  /\ N >= 2
  /\ Len(keylog) >= 2
  /\ ret = <<0>>
  /\ ret # None

\* C15: with their preconditions met (valid, non-empty data, sorted by key
\* for benchmark_search), benchmark_sort and benchmark_search end, for
\* every value of repeats, by returning a mapping of non-negative numbers,
\* never by raising an error.
BenchmarksNeverCrash ==
  op \in Benchmarks
    => /\ pc # "crashed"
       /\ pc = "done" => \A m \in Metrics(op) : bench.report[m] >= 0

\* C16: for an empty input both sorts return an empty list, for a
\* one-element input a one-element list holding the same item, and in
\* neither case is the key function evaluated (so a key function that
\* would raise on the item does not make the call fail).
SmallInputsNeedNoKey ==
  (op \in Sorts /\ N <= 1)
    => /\ keylog = <<>>
       /\ pc # "raised"
       /\ pc = "done" => (Len(Returned) = N /\ Returned = InputSeq)

SmallInputsNeedNoKeyWitness ==
  /\ op = "insertion_sort"
  /\ pc = "done"
  /\ N = 1
  /\ bad = 1
  /\ Returned = <<1>>
  /\ keylog = <<>>

\* A step of the loop of _merge in the top frame.
MergeStepTaken ==
  /\ pc = "ms" /\ pc' = "ms"
  /\ Top.ph = "merge"
  /\ Len(stack') = Len(stack)
  /\ stack' # stack

\* The top frame returns from _merge.
MergeReturnTaken ==
  /\ pc = "ms" /\ pc' # "raised"
  /\ Top.ph = "merge"
  /\ Len(stack') = Len(stack) - 1

\* The list such a return hands over.
MergedOutput ==
  IF Len(stack) = 1 THEN heap'[result']
  ELSE IF stack[Len(stack) - 1].ph = "left"
       THEN stack'[Len(stack')].left
       ELSE stack'[Len(stack')].right

\* C17: given two halves non-decreasing under key, each step of _merge
\* emits the head with the smaller key, the left head when the two keys
\* are equal, and advances that half only; _merge returns once a half is
\* exhausted, the emitted items followed by the rest of the other half in
\* its order; the output is non-decreasing under key and has length
\* len(left) + len(right).
MergeBehaviour ==
  [][ /\ (MergeStepTaken /\ Ordered(Top.left) /\ Ordered(Top.right))
           => LET f == Top
                  g == stack'[Len(stack)]
                  l == f.left[f.i + 1]
                  r == f.right[f.j + 1]
              IN IF KeyLt(KeyOf(r), KeyOf(l))
                 THEN /\ g.result = Append(f.result, r)
                      /\ g.j = f.j + 1 /\ g.i = f.i
                 ELSE /\ g.result = Append(f.result, l)
                      /\ g.i = f.i + 1 /\ g.j = f.j
      /\ (MergeReturnTaken /\ Ordered(Top.left) /\ Ordered(Top.right))
           => LET f == Top
              IN /\ f.i = Len(f.left) \/ f.j = Len(f.right)
                 /\ MergedOutput = f.result
                                     \o SubSeq(f.left, f.i + 1, Len(f.left))
                                     \o SubSeq(f.right, f.j + 1, Len(f.right))
                 /\ Ordered(MergedOutput)
                 /\ Len(MergedOutput) = Len(f.left) + Len(f.right)
    ]_vars

MergeBehaviourWitness ==
  /\ pc = "ms"
  /\ Len(stack) >= 1
  /\ Top.ph = "merge"
  /\ Len(Top.left) + Len(Top.right) >= 3
  /\ Len(Top.result) >= 1
  /\ Top.i < Len(Top.left) /\ Top.j < Len(Top.right)
  /\ KeyOf(Top.left[Top.i + 1]) = KeyOf(Top.right[Top.j + 1])
  /\ items[Top.left[Top.i + 1]] # items[Top.right[Top.j + 1]]

\* C18: binary_search ends on every list, sorted or not.  Every iteration
\* that does not return probes an index mid with low <= mid <= high and
\* sets low to mid + 1 or high to mid - 1, so the size high - low + 1 of the
\* range strictly decreases and is never negative; the loop is left after
\* at most n probes, with an index or None (or the key function's
\* exception).
BinarySearchTerminates ==
  /\ [][(op = "binary_search" /\ pc = "bs_loop" /\ pc' = "bs_loop")
          => /\ low <= mid' /\ mid' <= high
             /\ \/ low' = mid' + 1 /\ high' = high
                \/ high' = mid' - 1 /\ low' = low
             /\ high' - low' + 1 < high - low + 1
             /\ high' - low' + 1 >= 0
             /\ Len(keylog') <= N]_vars
  /\ (pc = "bs_loop") ~> (pc = "done" \/ pc = "raised")
  /\ (pc = "bs_loop" /\ bad = 0) ~> (pc = "done")

BinarySearchTerminatesWitness ==
  /\ op = "binary_search"
  /\ pc = "done"
  /\ N >= 3
  /\ ~Ordered(heap[DataRef])
  /\ Len(keylog) >= 2

\* C19: on a list non-decreasing under key, whenever binary_search is at
\* the loop test: 0 <= low and high <= n - 1, every index below low has a key
\* less than the target and every index above high a key greater than the
\* target, so a matching index, if there is one, lies in low..high; and
\* every probed index mid is in 0..n-1.
BinarySearchInvariant ==
  (op = "binary_search" /\ pc = "bs_loop" /\ Ordered(heap[DataRef]))
    => /\ 0 <= low /\ high <= N - 1
       /\ \A x \in 0..(low - 1) : KeyLt(KeyOf(heap[DataRef][x + 1]), target)
       /\ \A x \in (high + 1)..(N - 1) :
             KeyLt(target, KeyOf(heap[DataRef][x + 1]))
       /\ TargetPresent
             => \E x \in low..high : KeyOf(heap[DataRef][x + 1]) = target
       /\ low <= high => (low + high) \div 2 \in 0..(N - 1)
       /\ keylog # <<>>
             => /\ mid \in 0..(N - 1)
                /\ keylog[Len(keylog)] = heap[DataRef][mid + 1]

BinarySearchInvariantWitness ==
  /\ op = "binary_search"
  /\ pc = "bs_loop"
  /\ Ordered(heap[DataRef])
  /\ N >= 3
  /\ low > 0
  /\ low <= high
  /\ TargetPresent

\* C20: whenever insertion_sort is at the head of its outer loop, having
\* finished the positions below i: the prefix result[0..i-1] is
\* non-decreasing under key and a permutation of input[0..i-1], and the
\* suffix from position i on is still the input's.
InsertionSortInvariant ==
  (op = "insertion_sort" /\ pc = "is_outer")
    => LET res == heap[result]
           k   == IF i <= N THEN i ELSE N
       IN /\ Len(res) = N
          /\ Ordered(SubSeq(res, 1, k))
          /\ \A x \in 1..k :
                Cardinality({p \in 1..k : res[p] = x}) = 1
          /\ \A p \in (k + 1)..N : res[p] = p

InsertionSortInvariantWitness ==
  /\ op = "insertion_sort"
  /\ pc = "is_outer"
  /\ N >= 3
  /\ i = 2
  /\ heap[result][1] = 2
  /\ heap[result][3] = 3
  /\ KeyLt(KeyOf(3), KeyOf(1))

\* C21: on an input already non-decreasing under key, insertion_sort never
\* shifts an element: the inner loop body runs for no position, each held
\* element is written back to its own position, and the call makes exactly
\* n - 1 comparisons, each of two neighbours (two key evaluations per
\* comparison), for an input of length n >= 1.
InsertionSortBestCase ==
  (op = "insertion_sort" /\ pc \in {"is_outer", "is_inner", "done"}
     /\ Ordered(InputSeq))
    => /\ heap[result] = InputSeq
       /\ pc = "is_inner" => (j = i - 1 /\ current = i + 1)
       /\ \A p \in DOMAIN keylog :
             keylog[p] = IF p % 2 = 1 THEN (p + 1) \div 2 ELSE (p \div 2) + 1
       /\ (pc = "done" /\ N >= 1) => Len(keylog) = 2 * (N - 1)

InsertionSortBestCaseWitness ==
  /\ op = "insertion_sort"
  /\ pc = "done"
  /\ N >= 3
  /\ Ordered(InputSeq)
  /\ \E x \in 1..(N - 1) : KeyOf(x) = KeyOf(x + 1) /\ items[x] # items[x + 1]
  /\ \E x \in 1..(N - 1) : KeyLt(KeyOf(x), KeyOf(x + 1))
  /\ Len(keylog) = 2 * (N - 1)

\* C22: on every list, also one that is not sorted under key,
\* binary_search indexes the list only inside 0..n-1 (no index error), and
\* an index it returns is in range and has key equal to the target; a
\* target reported not-found although present means the list was not
\* sorted.
BinarySearchSound ==
  op = "binary_search"
    => /\ pc = "bs_loop"
             => /\ 0 <= low /\ high <= N - 1
                /\ low <= high => (low + high) \div 2 \in 0..(N - 1)
       /\ keylog # <<>> => mid \in 0..(N - 1)
       /\ (pc = "done" /\ ret # None)
             => /\ ret[1] \in 0..(N - 1)
                /\ KeyOf(heap[DataRef][ret[1] + 1]) = target
       /\ (pc = "done" /\ ret = None /\ TargetPresent)
             => ~Ordered(heap[DataRef])

BinarySearchSoundWitness ==
  /\ op = "binary_search"
  /\ pc = "done"
  /\ N >= 3
  /\ ~Ordered(heap[DataRef])
  /\ TargetPresent
  /\ ret = None
  /\ Len(keylog) >= 2

\* C23: on the same input and key, merge_sort and insertion_sort return
\* the same items in the same positions, inputs with equal keys included.
SortsInterchangeable ==
  (op \in Sorts /\ pc = "done" /\ prev.kind = "same")
    => /\ prev.op = Counterpart(op)
       /\ prev.arg = heap[DataRef]
       /\ Returned = prev.res

SortsInterchangeableWitness ==
  /\ op = "merge_sort"
  /\ pc = "done"
  /\ prev.kind = "same"
  /\ prev.op = "insertion_sort"
  /\ StabilityCase
  /\ N >= 3
  /\ Returned = prev.res

\* What each search returned, once both have run on the same arguments.
BinaryRet == IF op = "binary_search" THEN ret ELSE prev.ret

LinearRet == IF op = "linear_search" THEN ret ELSE prev.ret

\* C24: on the same list, non-decreasing under key, and the same target,
\* binary_search returns None exactly when linear_search does, and when
\* both return an index, the one of linear_search is not above the one of
\* binary_search and both indexed elements have key equal to the target.
SearchesAgree ==
  (op \in Searches /\ pc = "done" /\ prev.kind = "same"
     /\ Ordered(heap[DataRef]))
    => /\ prev.op = Counterpart(op)
       /\ prev.target = target /\ prev.arg = heap[DataRef]
       /\ (BinaryRet = None) <=> (LinearRet = None)
       /\ BinaryRet # None
             => /\ LinearRet[1] <= BinaryRet[1]
                /\ KeyOf(heap[DataRef][LinearRet[1] + 1]) = target
                /\ KeyOf(heap[DataRef][BinaryRet[1] + 1]) = target

SearchesAgreeWitness ==
  /\ op = "linear_search"
  /\ pc = "done"
  /\ prev.kind = "same"
  /\ prev.op = "binary_search"
  /\ Ordered(heap[DataRef])
  /\ N >= 3
  /\ ret # None /\ prev.ret # None
  /\ ret[1] < prev.ret[1]
  /\ \E x \in 1..N : KeyOf(x) # target

====
